---- MODULE Spec2Model ----
\* A model of genmesh's polygon algebra (poly.rs), its emission protocols and
\* buffered streaming adapters (poly.rs, triangulate.rs), and four of its
\* generators (cone.rs, dodecahedron.rs, octahedron.rs, tetrahedron.rs).
\*
\* Three specifications share the variables below:
\*   SpecGen    a generator, pulled with next() and probed through its indexed view
\*   SpecEmit   one shape, to which one emission protocol or map_vertex is applied
\*   SpecAdapt  a buffered adapter over a scripted upstream iterator
\* A specification leaves the variables of the other two at their idle values.
EXTENDS Integers, Sequences, FiniteSets, TLC

VARIABLES
    debug_assertions, \* cfg!(debug_assertions): whether debug_assert! is compiled in
    panicked,         \* a panic has unwound out of the operation
    \* ---- generator (SpecGen)
    gen,              \* which generator was constructed
    sub_u,            \* Cone.sub_u
    i,                \* the face cursor: Tetrahedron.i, Octahedron.i, Dodecahedron.i, Cone.u
    produced,         \* the shapes next() has returned as Some(..), in order
    ret,              \* what the last next() returned: "fresh" (not called), "Some", "None"
    calls,            \* how many times next() has been called
    probe,            \* the last answer of indexed_polygon(idx), with idx
    \* ---- one shape and one protocol (SpecEmit)
    shape,            \* the shape the protocol is applied to
    f,                \* the closure handed to map_vertex
    op,               \* the protocol that has been applied ("none" before)
    emitted,          \* what the emit callback received, in call order
    result,           \* what map_vertex returned
    fcalls,           \* the arguments the closure was called with, in call order
    \* ---- buffered adapter (SpecAdapt)
    adapter,          \* "vertices", "lines" or "triangulate"
    source,           \* what upstream next() will still return, in order
    pulled,           \* the shapes upstream next() has handed over, in order
    buffer,           \* the adapter's VecDeque
    out,              \* the items the adapter's next() has returned as Some(..), in order
    aret,             \* what the adapter's last next() returned
    nones             \* how many times the adapter's next() has returned None

vars == <<debug_assertions, panicked, gen, sub_u, i, produced, ret, calls, probe,
          shape, f, op, emitted, result, fcalls,
          adapter, source, pulled, buffer, out, aret, nones>>

genVars == <<gen, sub_u, i, produced, ret, calls, probe>>
emitVars == <<shape, f, op, emitted, result, fcalls>>
adaptVars == <<adapter, source, pulled, buffer, out, aret, nones>>

\* ------------------------------------------------------------------ bounds
\* Cone::new(u) is tried for u in 0..MaxSubU
MaxSubU == 3
\* a generator's next() is called at most MaxCalls times
MaxCalls == 14
\* vertex payloads of SpecEmit are 1..NumVerts
NumVerts == 4
\* NGons of SpecEmit have 0..MaxNGon corners
MaxNGon == 5
\* the upstream of SpecAdapt hands over at most MaxUp items (shapes and Nones)
MaxUp == 3
\* NGons of the upstream have 0..MaxUpNGon corners
MaxUpNGon == 3
\* an adapter's next() is called until it has returned None MaxNones times
MaxNones == 2

\* ------------------------------------------------------------------ shapes
Line(x, y) == [kind |-> "Line", x |-> x, y |-> y]

Quad(v0, v1, v2, v3) == [kind |-> "Quad", x |-> v0, y |-> v1, z |-> v2, w |-> v3]

Triangle(v0, v1, v2) == [kind |-> "Triangle", x |-> v0, y |-> v1, z |-> v2]

NGon(verts) == [kind |-> "NGon", verts |-> verts]

PolyTri(t) == [kind |-> "PolyTri", p |-> t]

PolyQuad(q) == [kind |-> "PolyQuad", p |-> q]

PolyNGon(n) == [kind |-> "PolyNGon", p |-> n]

\* NGon::add_vertex: push_back
add_vertex(ngon, vert) == NGon(Append(ngon.verts, vert))

\* ------------------------------------------------------------------ closures
\* A closure handed to map_vertex is FnMut: its answer may depend on how often it
\* has been called. Call(c, v, n) is the answer of closure c to argument v on its
\* (n+1)-th call.
\*   "succ"   |v| v + 1
\*   "zero"   |_| 0
\*   "stamp"  a closure that counts its calls: |v| { n += 1; 10 * n + v }
Closures == {"succ", "zero", "stamp"}

PlainCall(c, v, n) ==
    CASE c = "succ" -> v + 1
      [] c = "zero" -> 0
      [] c = "stamp" -> 10 * (n + 1) + v

\* ------------------------------------------------------------------ cone.rs
\* VertexSection
Tip(k) == [sec |-> "Tip", i |-> k]

TopRadius(k) == [sec |-> "TopRadius", i |-> k]

BottomRadius(k) == [sec |-> "BottomRadius", i |-> k]

BottomCenter == [sec |-> "BottomCenter", i |-> 0]

\* An f32 the cone computes, kept symbolic: fn(num * PI / den) * mul, where
\* fn is cos, sin or the constant num, and mul is 1 or FRAC_1_SQRT_2.
\* divisions = TWO_PI / sub_u, so an angle divisions * k is 2k * PI / sub_u and
\* divisions * k + divisions / 2 is (2k + 1) * PI / sub_u.
F32(fn, num, den, mul) == [fn |-> fn, num |-> num, den |-> den, mul |-> mul]

Const(k) == F32("const", k, 1, "1")

Vertex(pos, normal) == [pos |-> pos, normal |-> normal]

\* Cone::vertex
ConeVertex(su, sec) ==
    CASE sec.sec = "Tip" ->
           LET pos == 2 * sec.i + 1
           IN Vertex(<<Const(0), Const(0), Const(1)>>,
                     <<F32("cos", pos, su, "FRAC_1_SQRT_2"),
                       F32("sin", pos, su, "FRAC_1_SQRT_2"),
                       F32("const", -1, 1, "FRAC_1_SQRT_2")>>)
      [] sec.sec = "TopRadius" ->
           LET pos == 2 * sec.i
           IN Vertex(<<F32("cos", pos, su, "1"), F32("sin", pos, su, "1"), Const(-1)>>,
                     <<F32("cos", pos, su, "FRAC_1_SQRT_2"),
                       F32("sin", pos, su, "FRAC_1_SQRT_2"),
                       F32("const", -1, 1, "FRAC_1_SQRT_2")>>)
      [] sec.sec = "BottomRadius" ->
           LET pos == 2 * sec.i
           IN Vertex(<<F32("cos", pos, su, "1"), F32("sin", pos, su, "1"), Const(-1)>>,
                     <<Const(0), Const(0), Const(-1)>>)
      [] sec.sec = "BottomCenter" ->
           Vertex(<<Const(0), Const(0), Const(-1)>>, <<Const(0), Const(0), Const(-1)>>)

\* an index layout whose bottom ring starts where the bottom centre sits
ConeIndexBottomShifted(su, sec) ==
    CASE sec.sec = "Tip" -> sec.i
      [] sec.sec = "TopRadius" -> sec.i + su
      [] sec.sec = "BottomRadius" -> sec.i + su * 3
      [] sec.sec = "BottomCenter" -> su * 3

\* Cone::index
ConeIndex(su, sec) ==
    CASE sec.sec = "Tip" -> sec.i
      [] sec.sec = "TopRadius" -> sec.i + su
      [] sec.sec = "BottomRadius" -> sec.i + su * 2
      [] sec.sec = "BottomCenter" -> su * 3

\* Cone::rev_index
ConeRevIndex(su, idx) ==
    IF idx < su THEN Tip(idx)
    ELSE IF idx < su * 2 THEN TopRadius(idx - su)
    ELSE IF idx < su * 3 THEN BottomRadius(idx - su * 2)
    ELSE BottomCenter

\* SharedVertex for Cone
ConeSharedVertex(su, idx) == ConeVertex(su, ConeRevIndex(su, idx))

ConeSharedVertexCount(su) == su * 3 + 1

\* IndexedPolygon for Cone
ConeIndexedPolygon(su, idx) ==
    IF idx < su
    THEN LET next == IF idx # su - 1 THEN idx + 1 ELSE 0
         IN PolyTri(Triangle(ConeIndex(su, Tip(idx)),
                             ConeIndex(su, TopRadius(idx)),
                             ConeIndex(su, TopRadius(next))))
    ELSE LET idx2 == idx - su
             next == IF idx2 # su - 1 THEN idx2 + 1 ELSE 0
         IN PolyTri(Triangle(ConeIndex(su, BottomCenter),
                             ConeIndex(su, BottomRadius(next)),
                             ConeIndex(su, BottomRadius(idx2))))

ConeIndexedPolygonCount(su) == su * 2

\* ------------------------------------------------------------------ platonic solids
\* Coordinates are fixed-point f32 values in units of 1/ONE.
ONE == 1000

\* dodecahedron.rs
PHI == 1618

CONJPHI == 618

\* octahedron.rs: A = 1 / (2 * sqrt 2)
A == 354

B == 500

\* the largest r with r * r <= n, for lo * lo <= n < hi * hi
RECURSIVE ISqrtIn(_, _, _)
ISqrtIn(n, lo, hi) ==
    IF hi - lo <= 1 THEN lo
    ELSE LET mid == (lo + hi) \div 2
         IN IF mid * mid <= n THEN ISqrtIn(n, mid, hi) ELSE ISqrtIn(n, lo, mid)

\* 46341 * 46341 exceeds every 32-bit n
ISqrt(n) == ISqrtIn(n, 0, IF n + 1 < 46341 THEN n + 1 ELSE 46341)

Scaled(c, len) == IF c < 0 THEN 0 - (((0 - c) * ONE) \div len) ELSE (c * ONE) \div len

\* cgmath's InnerSpace::normalize: v / |v|
normalize(v) ==
    LET len == ISqrt(v[1] * v[1] + v[2] * v[2] + v[3] * v[3])
    IN <<Scaled(v[1], len), Scaled(v[2], len), Scaled(v[3], len)>>

TETRA_VERTICES ==
    << <<ONE, ONE, ONE>>, <<ONE, -ONE, -ONE>>, <<-ONE, ONE, -ONE>>, <<-ONE, -ONE, ONE>> >>

TETRA_FACES == << <<0, 2, 1>>, <<2, 3, 1>>, <<0, 1, 3>>, <<0, 3, 2>> >>

OCTA_VERTICES ==
    << <<-A, 0, A>>, <<A, 0, A>>, <<A, 0, -A>>, <<-A, 0, -A>>, <<0, B, 0>>, <<0, -B, 0>> >>

OCTA_FACES ==
    << <<3, 0, 4>>, <<2, 3, 4>>, <<1, 2, 4>>, <<0, 1, 4>>,
       <<3, 2, 5>>, <<0, 3, 5>>, <<2, 1, 5>>, <<1, 0, 5>> >>

DODECA_VERTICES ==
    << <<-CONJPHI, -PHI, 0>>, <<CONJPHI, -PHI, 0>>, <<ONE, -ONE, ONE>>,
       <<0, -CONJPHI, PHI>>, <<-ONE, -ONE, ONE>>, <<-PHI, 0, CONJPHI>>,
       <<-ONE, -ONE, -ONE>>, <<ONE, -ONE, -ONE>>, <<PHI, 0, CONJPHI>>,
       <<0, CONJPHI, PHI>>, <<-ONE, ONE, ONE>>, <<-PHI, 0, -CONJPHI>>,
       <<0, -CONJPHI, -PHI>>, <<PHI, 0, -CONJPHI>>, <<ONE, ONE, ONE>>,
       <<CONJPHI, PHI, 0>>, <<-CONJPHI, PHI, 0>>, <<-ONE, ONE, -ONE>>,
       <<0, CONJPHI, -PHI>>, <<ONE, ONE, -ONE>> >>

DODECA_FACES ==
    << <<0, 1, 2, 3, 4>>, <<1, 0, 6, 12, 7>>, <<2, 1, 7, 13, 8>>, <<3, 2, 8, 14, 9>>,
       <<4, 3, 9, 10, 5>>, <<0, 4, 5, 11, 6>>, <<17, 18, 12, 6, 11>>,
       <<18, 19, 13, 7, 12>>, <<19, 15, 14, 8, 13>>, <<15, 16, 10, 9, 14>>,
       <<16, 17, 11, 5, 10>>, <<15, 19, 18, 17, 16>> >>

\* Rust indexes arrays from 0
At(arr, idx) == arr[idx + 1]

\* Tetrahedron::vert, Octahedron::vert, Dodecahedron::vert
TetrahedronVert(idx) ==
    LET position == normalize(At(TETRA_VERTICES, idx))
    IN Vertex(position, position)

OctahedronVert(idx) ==
    LET position == normalize(At(OCTA_VERTICES, idx))
    IN Vertex(position, position)

DodecahedronVert(index) ==
    LET position == normalize(At(DODECA_VERTICES, index))
        normal == position
    IN Vertex(position, normal)

\* IndexedPolygon::indexed_polygon
TetrahedronIndexedPolygon(idx) ==
    LET face == At(TETRA_FACES, idx)
    IN PolyTri(Triangle(At(face, 0), At(face, 1), At(face, 2)))

OctahedronIndexedPolygon(idx) ==
    LET face == At(OCTA_FACES, idx)
    IN PolyTri(Triangle(At(face, 0), At(face, 1), At(face, 2)))

DodecahedronIndexedPolygon(idx) ==
    LET face == At(DODECA_FACES, idx)
        r0 == NGon(<<>>)
        r1 == add_vertex(r0, At(face, 0))
        r2 == add_vertex(r1, At(face, 1))
        r3 == add_vertex(r2, At(face, 2))
        r4 == add_vertex(r3, At(face, 3))
        r5 == add_vertex(r4, At(face, 4))
    IN PolyNGon(r5)

\* the shape Iterator::next builds when the cursor is at face k
TetrahedronShape(k) ==
    LET face == At(TETRA_FACES, k)
        va == TetrahedronVert(At(face, 0))
        vb == TetrahedronVert(At(face, 1))
        vc == TetrahedronVert(At(face, 2))
    IN PolyTri(Triangle(va, vb, vc))

OctahedronShape(k) ==
    LET face == At(OCTA_FACES, k)
        va == OctahedronVert(At(face, 0))
        vb == OctahedronVert(At(face, 1))
        vc == OctahedronVert(At(face, 2))
    IN PolyTri(Triangle(va, vb, vc))

DodecahedronShape(k) ==
    LET face == At(DODECA_FACES, k)
        r0 == NGon(<<>>)
        r1 == add_vertex(r0, DodecahedronVert(At(face, 0)))
        r2 == add_vertex(r1, DodecahedronVert(At(face, 1)))
        r3 == add_vertex(r2, DodecahedronVert(At(face, 2)))
        r4 == add_vertex(r3, DodecahedronVert(At(face, 3)))
        r5 == add_vertex(r4, DodecahedronVert(At(face, 4)))
    IN PolyNGon(r5)

\* ------------------------------------------------------------------ the generator traits
Generators == {"Cone", "Dodecahedron", "Octahedron", "Tetrahedron"}

\* IndexedPolygon::indexed_polygon_count
indexed_polygon_count(g, su) ==
    CASE g = "Cone" -> ConeIndexedPolygonCount(su)
      [] g = "Dodecahedron" -> Len(DODECA_FACES)
      [] g = "Octahedron" -> Len(OCTA_FACES)
      [] g = "Tetrahedron" -> Len(TETRA_FACES)

\* IndexedPolygon::indexed_polygon
indexed_polygon(g, su, idx) ==
    CASE g = "Cone" -> ConeIndexedPolygon(su, idx)
      [] g = "Dodecahedron" -> DodecahedronIndexedPolygon(idx)
      [] g = "Octahedron" -> OctahedronIndexedPolygon(idx)
      [] g = "Tetrahedron" -> TetrahedronIndexedPolygon(idx)

\* SharedVertex::shared_vertex_count
shared_vertex_count(g, su) ==
    CASE g = "Cone" -> ConeSharedVertexCount(su)
      [] g = "Dodecahedron" -> Len(DODECA_VERTICES)
      [] g = "Octahedron" -> Len(OCTA_VERTICES)
      [] g = "Tetrahedron" -> Len(TETRA_VERTICES)

\* SharedVertex::shared_vertex
shared_vertex(g, su, idx) ==
    CASE g = "Cone" -> ConeSharedVertex(su, idx)
      [] g = "Dodecahedron" -> DodecahedronVert(idx)
      [] g = "Octahedron" -> OctahedronVert(idx)
      [] g = "Tetrahedron" -> TetrahedronVert(idx)

\* ------------------------------------------------------------------ map_vertex
\* A closure is a record: [fn |-> name] with what it captures. The closure
\* |i| self.shared_vertex(i) of Cone::next captures self.
Plain(name) == [fn |-> name, gen |-> "none", sub_u |-> 0]

SharedVertexClosure(g, su) == [fn |-> "shared_vertex", gen |-> g, sub_u |-> su]

Call(c, v, n) ==
    IF c.fn = "shared_vertex" THEN shared_vertex(c.gen, c.sub_u, v)
    ELSE PlainCall(c.fn, v, n)

\* Each map_vertex answers [out |-> the mapped shape, calls |-> the arguments the
\* closure received, in call order]. Rust evaluates the fields of a struct
\* expression in the order they are written.
MapVertexLine(self, c) ==
    LET x == Call(c, self.x, 0)
        y == Call(c, self.y, 1)
    IN [out |-> Line(x, y), calls |-> <<self.x, self.y>>]

MapVertexTriangle(self, c) ==
    LET x == Call(c, self.x, 0)
        y == Call(c, self.y, 1)
        z == Call(c, self.z, 2)
    IN [out |-> Triangle(x, y, z), calls |-> <<self.x, self.y, self.z>>]

\* a quad mapped with its last two fields evaluated in the other order
MapVertexQuadSwapped(self, c) ==
    LET x == Call(c, self.x, 0)
        y == Call(c, self.y, 1)
        w == Call(c, self.w, 2)
        z == Call(c, self.z, 3)
    IN [out |-> Quad(x, y, z, w), calls |-> <<self.x, self.y, self.w, self.z>>]

MapVertexQuad(self, c) ==
    LET x == Call(c, self.x, 0)
        y == Call(c, self.y, 1)
        z == Call(c, self.z, 2)
        w == Call(c, self.w, 3)
    IN [out |-> Quad(x, y, z, w), calls |-> <<self.x, self.y, self.z, self.w>>]

\* the loop of NGon::map_vertex: rest is what `for vert in self.verts` has still to
\* visit, acc the result and the call log so far
RECURSIVE MapVertexNGonLoop(_, _, _)
MapVertexNGonLoop(rest, c, acc) ==
    IF rest = <<>> THEN acc
    ELSE MapVertexNGonLoop(Tail(rest), c,
             [out |-> add_vertex(acc.out, Call(c, Head(rest), Len(acc.calls))),
              calls |-> Append(acc.calls, Head(rest))])

MapVertexNGon(self, c) ==
    MapVertexNGonLoop(self.verts, c, [out |-> NGon(<<>>), calls |-> <<>>])

MapVertexPolygon(self, c) ==
    CASE self.kind = "PolyTri" ->
           LET r == MapVertexTriangle(self.p, c)
           IN [out |-> PolyTri(r.out), calls |-> r.calls]
      [] self.kind = "PolyQuad" ->
           LET r == MapVertexQuad(self.p, c)
           IN [out |-> PolyQuad(r.out), calls |-> r.calls]
      [] self.kind = "PolyNGon" ->
           LET r == MapVertexNGon(self.p, c)
           IN [out |-> PolyNGon(r.out), calls |-> r.calls]

\* map_vertex, by the type of self
map_vertex(self, c) ==
    CASE self.kind = "Line" -> MapVertexLine(self, c)
      [] self.kind = "Triangle" -> MapVertexTriangle(self, c)
      [] self.kind = "Quad" -> MapVertexQuad(self, c)
      [] self.kind = "NGon" -> MapVertexNGon(self, c)
      [] OTHER -> MapVertexPolygon(self, c)

\* the shape Cone::next builds for face idx
ConeShape(su, idx) ==
    map_vertex(ConeIndexedPolygon(su, idx), SharedVertexClosure("Cone", su)).out

\* ------------------------------------------------------------------ SpecGen
IdleGen ==
    /\ gen = "none" /\ sub_u = 0 /\ i = 0 /\ produced = <<>>
    /\ ret = "fresh" /\ calls = 0 /\ probe = <<>>

IdleEmit ==
    /\ shape = <<>> /\ f = "none" /\ op = "none"
    /\ emitted = <<>> /\ result = <<>> /\ fcalls = <<>>

IdleAdapt ==
    /\ adapter = "none" /\ source = <<>> /\ pulled = <<>> /\ buffer = <<>>
    /\ out = <<>> /\ aret = "fresh" /\ nones = 0

\* a constructor that refuses only u = 0
ConeNewAssert1(u) == [panic |-> ~(u >= 1), u |-> 0, sub_u |-> u]

\* Cone::new(u): assert!(u >= 2); Cone { u: 0, sub_u: u }
ConeNew(u) == [panic |-> ~(u >= 2), u |-> 0, sub_u |-> u]

\* Tetrahedron::new, Octahedron::new, Dodecahedron::new, and Cone::new(u) for
\* every u in 0..MaxSubU: assert!(u >= 2) panics for u < 2.
InitGen ==
    /\ gen \in Generators
    /\ \E u \in 0 .. MaxSubU :
          IF gen = "Cone"
          THEN /\ sub_u = ConeNew(u).sub_u
               /\ i = ConeNew(u).u
               /\ panicked = ConeNew(u).panic
          ELSE /\ sub_u = 0
               /\ i = 0
               /\ panicked = FALSE
    /\ debug_assertions \in BOOLEAN
    /\ produced = <<>>
    /\ ret = "fresh"
    /\ calls = 0
    /\ probe = <<>>
    /\ IdleEmit
    /\ IdleAdapt

\* Iterator::next for Cone
ConeNext ==
    /\ gen = "Cone" /\ ~panicked /\ calls < MaxCalls
    /\ calls' = calls + 1
    /\ IF i < sub_u * 2
       THEN LET idx == i
            IN /\ i' = i + 1
               /\ produced' = Append(produced, ConeShape(sub_u, idx))
               /\ ret' = "Some"
       ELSE /\ ret' = "None"
            /\ UNCHANGED <<i, produced>>
    /\ UNCHANGED <<debug_assertions, panicked, gen, sub_u, probe, emitVars, adaptVars>>

\* Iterator::next for Dodecahedron
DodecahedronNext ==
    /\ gen = "Dodecahedron" /\ ~panicked /\ calls < MaxCalls
    /\ calls' = calls + 1
    /\ IF i = Len(DODECA_FACES)
       THEN /\ ret' = "None"
            /\ UNCHANGED <<i, produced>>
       ELSE /\ produced' = Append(produced, DodecahedronShape(i))
            /\ i' = i + 1
            /\ ret' = "Some"
    /\ UNCHANGED <<debug_assertions, panicked, gen, sub_u, probe, emitVars, adaptVars>>

\* Iterator::next for Octahedron: self.i is read and never written
OctahedronNext ==
    /\ gen = "Octahedron" /\ ~panicked /\ calls < MaxCalls
    /\ calls' = calls + 1
    /\ IF i = Len(OCTA_FACES)
       THEN /\ ret' = "None"
            /\ UNCHANGED <<i, produced>>
       ELSE /\ produced' = Append(produced, OctahedronShape(i))
            /\ ret' = "Some"
            /\ UNCHANGED i
    /\ UNCHANGED <<debug_assertions, panicked, gen, sub_u, probe, emitVars, adaptVars>>

\* Iterator::next for Tetrahedron: self.i is read and never written
TetrahedronNext ==
    /\ gen = "Tetrahedron" /\ ~panicked /\ calls < MaxCalls
    /\ calls' = calls + 1
    /\ IF i = Len(TETRA_FACES)
       THEN /\ ret' = "None"
            /\ UNCHANGED <<i, produced>>
       ELSE /\ produced' = Append(produced, TetrahedronShape(i))
            /\ ret' = "Some"
            /\ UNCHANGED i
    /\ UNCHANGED <<debug_assertions, panicked, gen, sub_u, probe, emitVars, adaptVars>>

\* a caller asks indexed_polygon(idx) for a face index in range (&self: no state changes)
IndexedPolygonProbe ==
    /\ gen \in Generators /\ ~panicked
    /\ \E idx \in 0 .. indexed_polygon_count(gen, sub_u) - 1 :
          probe' = <<idx, indexed_polygon(gen, sub_u, idx)>>
    /\ UNCHANGED <<debug_assertions, panicked, gen, sub_u, i, produced, ret, calls,
                   emitVars, adaptVars>>

NextGen ==
    \/ ConeNext
    \/ DodecahedronNext
    \/ OctahedronNext
    \/ TetrahedronNext
    \/ IndexedPolygonProbe

SpecGen == InitGen /\ [][NextGen]_vars

\* face idx of the indexed view with every index replaced by shared_vertex(index)
IndexedFace(g, su, idx) ==
    map_vertex(indexed_polygon(g, su, idx), SharedVertexClosure(g, su)).out

\* C1 (as claimed): for every generator, the k-th shape next() returns is
\* indexed_polygon(k - 1) with every index replaced by shared_vertex(index).
StreamingEquivalence ==
    (gen \in Generators /\ ~panicked) =>
        \A k \in 1 .. Len(produced) :
            k <= indexed_polygon_count(gen, sub_u) =>
                produced[k] = IndexedFace(gen, sub_u, k - 1)

\* C1 holds of the two generators whose next() advances the cursor.
StreamingEquivalenceAdvancing ==
    (gen \in {"Cone", "Dodecahedron"} /\ ~panicked) =>
        \A k \in 1 .. Len(produced) : produced[k] = IndexedFace(gen, sub_u, k - 1)

AllFacesStreamed ==
    /\ gen \in {"Cone", "Dodecahedron"}
    /\ Len(produced) = indexed_polygon_count(gen, sub_u)
    /\ ret = "None"

\* C2 (as claimed): a generator yields exactly indexed_polygon_count() shapes: never
\* more, and all of them by the time next() returns None.
FiniteSequence ==
    (gen \in Generators /\ ~panicked) =>
        /\ Len(produced) <= indexed_polygon_count(gen, sub_u)
        /\ (ret = "None" => Len(produced) = indexed_polygon_count(gen, sub_u))

\* C2 holds of the two generators whose next() advances the cursor.
FiniteSequenceAdvancing ==
    (gen \in {"Cone", "Dodecahedron"} /\ ~panicked) =>
        /\ Len(produced) <= indexed_polygon_count(gen, sub_u)
        /\ (ret = "None" => Len(produced) = indexed_polygon_count(gen, sub_u))

\* once next() has returned None it returns None again
NoneIsTerminal == [][(ret = "None" /\ calls' # calls) => ret' = "None"]_vars

\* ------------------------------------------------------------------ emission protocols
\* An emission answers [items |-> what the emit callback received, in call order,
\*                      panic |-> whether a debug_assert! failed before any emit].
\* dbg is cfg!(debug_assertions).
Emitted(items) == [items |-> items, panic |-> FALSE]

Panic == [items |-> <<>>, panic |-> TRUE]

\* EmitVertices
EmitVerticesLine(self) == Emitted(<<self.x, self.y>>)

EmitVerticesTriangle(self) == Emitted(<<self.x, self.y, self.z>>)

\* a Quad emitting its corners as x, z, y, w
EmitVerticesQuadSwapped(self) == Emitted(<<self.x, self.z, self.y, self.w>>)

EmitVerticesQuad(self) == Emitted(<<self.x, self.y, self.z, self.w>>)

\* for v in self.verts { emit(v) }
RECURSIVE EmitVerticesNGonLoop(_, _)
EmitVerticesNGonLoop(rest, acc) ==
    IF rest = <<>> THEN acc
    ELSE EmitVerticesNGonLoop(Tail(rest), Append(acc, Head(rest)))

EmitVerticesNGon(self) == Emitted(EmitVerticesNGonLoop(self.verts, <<>>))

emit_vertices(self) ==
    CASE self.kind = "Line" -> EmitVerticesLine(self)
      [] self.kind = "Triangle" -> EmitVerticesTriangle(self)
      [] self.kind = "Quad" -> EmitVerticesQuad(self)
      [] self.kind = "NGon" -> EmitVerticesNGon(self)
      [] self.kind = "PolyTri" -> EmitVerticesTriangle(self.p)
      [] self.kind = "PolyQuad" -> EmitVerticesQuad(self.p)
      [] self.kind = "PolyNGon" -> EmitVerticesNGon(self.p)

\* EmitLines
EmitLinesTriangle(self) ==
    Emitted(<<Line(self.x, self.y), Line(self.y, self.z), Line(self.z, self.x)>>)

\* a quad whose last edge stops short of the first corner
EmitLinesQuadOpen(self) ==
    Emitted(<<Line(self.x, self.y), Line(self.y, self.z), Line(self.z, self.w)>>)

EmitLinesQuad(self) ==
    Emitted(<<Line(self.x, self.y), Line(self.y, self.z),
              Line(self.z, self.w), Line(self.w, self.x)>>)

\* for end in iter { emit(Line::new(start, end)); start = end }
RECURSIVE EmitLinesNGonLoop(_, _, _)
EmitLinesNGonLoop(start, iter, acc) ==
    IF iter = <<>> THEN acc
    ELSE LET end == Head(iter)
         IN EmitLinesNGonLoop(end, Tail(iter), Append(acc, Line(start, end)))

\* an NGon whose chain is closed like a Triangle's and a Quad's
EmitLinesNGonClosed(self, dbg) ==
    IF dbg /\ ~(Len(self.verts) >= 2) THEN Panic
    ELSE IF self.verts = <<>> THEN Emitted(<<>>)
    ELSE Emitted(Append(EmitLinesNGonLoop(Head(self.verts), Tail(self.verts), <<>>),
                        Line(self.verts[Len(self.verts)], Head(self.verts))))

\* the assertion of emit_triangles copied into emit_lines
EmitLinesNGonAssert3(self, dbg) ==
    IF dbg /\ ~(Len(self.verts) >= 3) THEN Panic
    ELSE IF self.verts = <<>> THEN Emitted(<<>>)
    ELSE Emitted(EmitLinesNGonLoop(Head(self.verts), Tail(self.verts), <<>>))

EmitLinesNGon(self, dbg) ==
    IF dbg /\ ~(Len(self.verts) >= 2) THEN Panic
    ELSE IF self.verts = <<>> THEN Emitted(<<>>)
    ELSE Emitted(EmitLinesNGonLoop(Head(self.verts), Tail(self.verts), <<>>))

emit_lines(self, dbg) ==
    CASE self.kind = "Triangle" -> EmitLinesTriangle(self)
      [] self.kind = "Quad" -> EmitLinesQuad(self)
      [] self.kind = "NGon" -> EmitLinesNGon(self, dbg)
      [] self.kind = "PolyTri" -> EmitLinesTriangle(self.p)
      [] self.kind = "PolyQuad" -> EmitLinesQuad(self.p)
      [] self.kind = "PolyNGon" -> EmitLinesNGon(self.p, dbg)

\* a quad split along the other diagonal
EmitTrianglesQuadOtherDiagonal(self) ==
    Emitted(<<Triangle(self.x, self.y, self.w), Triangle(self.y, self.z, self.w)>>)

\* EmitTriangles
EmitTrianglesQuad(self) ==
    Emitted(<<Triangle(self.x, self.y, self.z), Triangle(self.z, self.w, self.x)>>)

EmitTrianglesTriangle(self) == Emitted(<<self>>)

\* while let Some(vert) = v_iter.next() { emit(Triangle::new(start, recent, vert)); recent = vert }
RECURSIVE EmitTrianglesNGonLoop(_, _, _, _)
EmitTrianglesNGonLoop(start, recent, v_iter, acc) ==
    IF v_iter = <<>> THEN acc
    ELSE LET vert == Head(v_iter)
         IN EmitTrianglesNGonLoop(start, vert, Tail(v_iter),
                                  Append(acc, Triangle(start, recent, vert)))

\* a strip instead of a fan: start follows recent
RECURSIVE EmitTrianglesNGonStripLoop(_, _, _, _)
EmitTrianglesNGonStripLoop(start, recent, v_iter, acc) ==
    IF v_iter = <<>> THEN acc
    ELSE LET vert == Head(v_iter)
         IN EmitTrianglesNGonStripLoop(recent, vert, Tail(v_iter),
                                       Append(acc, Triangle(start, recent, vert)))

EmitTrianglesNGonStrip(self, dbg) ==
    IF dbg /\ ~(Len(self.verts) >= 3) THEN Panic
    ELSE IF self.verts = <<>> THEN Emitted(<<>>)
    ELSE IF Tail(self.verts) = <<>> THEN Emitted(<<>>)
    ELSE Emitted(EmitTrianglesNGonStripLoop(Head(self.verts), Head(Tail(self.verts)),
                                            Tail(Tail(self.verts)), <<>>))

EmitTrianglesNGon(self, dbg) ==
    IF dbg /\ ~(Len(self.verts) >= 3) THEN Panic
    ELSE IF self.verts = <<>> THEN Emitted(<<>>)
    ELSE IF Tail(self.verts) = <<>> THEN Emitted(<<>>)
    ELSE Emitted(EmitTrianglesNGonLoop(Head(self.verts), Head(Tail(self.verts)),
                                       Tail(Tail(self.verts)), <<>>))

emit_triangles(self, dbg) ==
    CASE self.kind = "Triangle" -> EmitTrianglesTriangle(self)
      [] self.kind = "Quad" -> EmitTrianglesQuad(self)
      [] self.kind = "NGon" -> EmitTrianglesNGon(self, dbg)
      [] self.kind = "PolyTri" -> EmitTrianglesTriangle(self.p)
      [] self.kind = "PolyQuad" -> EmitTrianglesQuad(self.p)
      [] self.kind = "PolyNGon" -> EmitTrianglesNGon(self.p, dbg)

\* ------------------------------------------------------------------ SpecEmit
Verts == 1 .. NumVerts

\* the sequences over S of length 0..n
RECURSIVE SeqsUpTo(_, _)
SeqsUpTo(S, n) ==
    IF n = 0 THEN {<<>>}
    ELSE LET shorter == SeqsUpTo(S, n - 1)
         IN shorter \cup {Append(q, v) : q \in {r \in shorter : Len(r) = n - 1}, v \in S}

Lines == {Line(x, y) : x \in Verts, y \in Verts}

Triangles == {Triangle(x, y, z) : x \in Verts, y \in Verts, z \in Verts}

Quads == {Quad(q[1], q[2], q[3], q[4]) : q \in [1 .. 4 -> Verts]}

NGons == {NGon(q) : q \in SeqsUpTo(Verts, MaxNGon)}

Polygons == {PolyTri(t) : t \in Triangles} \cup {PolyQuad(q) : q \in Quads}
                \cup {PolyNGon(n) : n \in NGons}

\* the corners of a shape, in the order of its fields
Corners(s) ==
    CASE s.kind = "Line" -> <<s.x, s.y>>
      [] s.kind = "Triangle" -> <<s.x, s.y, s.z>>
      [] s.kind = "Quad" -> <<s.x, s.y, s.z, s.w>>
      [] s.kind = "NGon" -> s.verts
      [] s.kind = "PolyTri" -> <<s.p.x, s.p.y, s.p.z>>
      [] s.kind = "PolyQuad" -> <<s.p.x, s.p.y, s.p.z, s.p.w>>
      [] s.kind = "PolyNGon" -> s.p.verts

\* the variant below a Polygon wrapper
Variant(s) ==
    CASE s.kind = "PolyTri" -> "Triangle"
      [] s.kind = "PolyQuad" -> "Quad"
      [] s.kind = "PolyNGon" -> "NGon"
      [] OTHER -> s.kind

InitEmit ==
    /\ shape \in Lines \cup Triangles \cup Quads \cup NGons \cup Polygons
    /\ debug_assertions \in BOOLEAN
    /\ panicked = FALSE
    /\ f = "none"
    /\ op = "none"
    /\ emitted = <<>>
    /\ result = <<>>
    /\ fcalls = <<>>
    /\ IdleGen
    /\ IdleAdapt

\* shape.emit_vertices(|v| emitted.push(v))
EmitVertices ==
    /\ op = "none" /\ shape # <<>>
    /\ LET e == emit_vertices(shape)
       IN /\ emitted' = e.items
          /\ panicked' = e.panic
    /\ op' = "emit_vertices"
    /\ UNCHANGED <<debug_assertions, shape, f, result, fcalls, genVars, adaptVars>>

\* shape.emit_lines(|l| emitted.push(l)); Line has no EmitLines
EmitLines ==
    /\ op = "none" /\ shape # <<>> /\ shape.kind # "Line"
    /\ LET e == emit_lines(shape, debug_assertions)
       IN /\ emitted' = e.items
          /\ panicked' = e.panic
    /\ op' = "emit_lines"
    /\ UNCHANGED <<debug_assertions, shape, f, result, fcalls, genVars, adaptVars>>

\* shape.emit_triangles(|t| emitted.push(t)); Line has no EmitTriangles
EmitTriangles ==
    /\ op = "none" /\ shape # <<>> /\ shape.kind # "Line"
    /\ LET e == emit_triangles(shape, debug_assertions)
       IN /\ emitted' = e.items
          /\ panicked' = e.panic
    /\ op' = "emit_triangles"
    /\ UNCHANGED <<debug_assertions, shape, f, result, fcalls, genVars, adaptVars>>

\* shape.map_vertex(c), for a closure c
MapVertex ==
    /\ op = "none" /\ shape # <<>>
    /\ \E c \in Closures :
          LET r == map_vertex(shape, Plain(c))
          IN /\ f' = c
             /\ result' = r.out
             /\ fcalls' = r.calls
    /\ op' = "map_vertex"
    /\ UNCHANGED <<debug_assertions, panicked, shape, emitted, genVars, adaptVars>>

\* Polygon::as_vertices: emit_vertices pushes every corner to the back of a
\* fresh VecDeque, which becomes the buffer of a VertexIterator
AsVertices ==
    /\ op = "none" /\ shape \in Polygons
    /\ LET e == emit_vertices(shape)
       IN /\ buffer' = e.items
          /\ panicked' = e.panic
    /\ op' = "as_vertices"
    /\ UNCHANGED <<debug_assertions, shape, f, emitted, result, fcalls, genVars,
                   adapter, source, pulled, out, aret, nones>>

\* VertexIterator::next: self.buffer.pop_front()
VertexIteratorNext ==
    /\ op = "as_vertices" /\ ~panicked /\ nones < MaxNones
    /\ IF buffer # <<>>
       THEN /\ out' = Append(out, Head(buffer))
            /\ buffer' = Tail(buffer)
            /\ aret' = "Some"
            /\ nones' = nones
       ELSE /\ aret' = "None"
            /\ nones' = nones + 1
            /\ UNCHANGED <<out, buffer>>
    /\ UNCHANGED <<debug_assertions, panicked, genVars, emitVars, adapter, source, pulled>>

NextEmit ==
    \/ EmitVertices
    \/ EmitLines
    \/ EmitTriangles
    \/ MapVertex
    \/ AsVertices
    \/ VertexIteratorNext

SpecEmit == InitEmit /\ [][NextEmit]_vars

\* C3: triangulating a Quad (x, y, z, w) emits Triangle(x, y, z) then
\* Triangle(z, w, x) and nothing else, whatever the corners are.
QuadTriangulation ==
    (op = "emit_triangles" /\ Variant(shape) = "Quad") =>
        LET c == Corners(shape)
        IN /\ ~panicked
           /\ emitted = <<Triangle(c[1], c[2], c[3]), Triangle(c[3], c[4], c[1])>>

QuadTriangulated ==
    /\ op = "emit_triangles" /\ shape.kind = "Quad"
    /\ Cardinality({shape.x, shape.y, shape.z, shape.w}) = 4
    /\ Len(emitted) = 2

\* C4: triangulating an NGon v0..v(n-1), n >= 3, emits the n - 2 triangles
\* (v0, v(k), v(k+1)), k = 1..n-2, in that order.
NGonFan ==
    (op = "emit_triangles" /\ Variant(shape) = "NGon" /\ Len(Corners(shape)) >= 3) =>
        LET c == Corners(shape)
            n == Len(c)
        IN /\ ~panicked
           /\ Len(emitted) = n - 2
           /\ \A k \in 1 .. n - 2 : emitted[k] = Triangle(c[1], c[k + 1], c[k + 2])

NGonFanned ==
    /\ op = "emit_triangles" /\ shape.kind = "NGon"
    /\ Len(shape.verts) = 5
    /\ Cardinality({shape.verts[k] : k \in 1 .. 5}) >= 4
    /\ Len(emitted) = 3

\* C6 (as claimed): edge-decomposing an NGon of 0, 1 or 2 corners emits no edge
\* and does not fail.
SmallNGonNoEdges ==
    (op = "emit_lines" /\ Variant(shape) = "NGon" /\ Len(Corners(shape)) < 3) =>
        /\ ~panicked
        /\ emitted = <<>>

\* C6 (amended): an NGon of 2 corners emits the one edge (v0, v1) in every build;
\* an NGon of 0 or 1 corners emits no edge, and panics on debug_assert!(len >= 2)
\* exactly when debug assertions are compiled in.
SmallNGonEdges ==
    (op = "emit_lines" /\ Variant(shape) = "NGon" /\ Len(Corners(shape)) < 3) =>
        LET c == Corners(shape)
        IN IF Len(c) = 2
           THEN ~panicked /\ emitted = <<Line(c[1], c[2])>>
           ELSE panicked = debug_assertions /\ emitted = <<>>

SmallNGonEdgesSeen ==
    /\ op = "emit_lines" /\ shape.kind = "NGon"
    /\ Len(shape.verts) = 2 /\ shape.verts[1] # shape.verts[2]
    /\ debug_assertions
    /\ Len(emitted) = 1

\* C7: edge-decomposing an NGon v0..v(n-1), n >= 3, emits the n - 1 edges
\* (v(k-1), v(k)), k = 1..n-1, in that order, and no closing edge (v(n-1), v0).
NGonOpenChain ==
    (op = "emit_lines" /\ Variant(shape) = "NGon" /\ Len(Corners(shape)) >= 3) =>
        LET c == Corners(shape)
            n == Len(c)
        IN /\ ~panicked
           /\ Len(emitted) = n - 1
           /\ \A k \in 1 .. n - 1 : emitted[k] = Line(c[k], c[k + 1])

NGonChained ==
    /\ op = "emit_lines" /\ shape.kind = "NGon"
    /\ Len(shape.verts) = 4
    /\ Cardinality({shape.verts[k] : k \in 1 .. 4}) = 4
    /\ Len(emitted) = 3
    /\ \A k \in 1 .. 3 : emitted[k] # Line(shape.verts[4], shape.verts[1])

\* C8: a Triangle emits the edges (x,y), (y,z), (z,x) and a Quad the edges
\* (x,y), (y,z), (z,w), (w,x), in that order: a closed cycle.
ClosedCycle ==
    (op = "emit_lines" /\ Variant(shape) \in {"Triangle", "Quad"}) =>
        LET c == Corners(shape)
            n == Len(c)
        IN /\ ~panicked
           /\ Len(emitted) = n
           /\ \A k \in 1 .. n : emitted[k] = Line(c[k], c[(k % n) + 1])
           /\ \A k \in 1 .. n : emitted[k].y = emitted[(k % n) + 1].x

ClosedCycleSeen ==
    /\ op = "emit_lines" /\ shape.kind = "Quad"
    /\ Cardinality({shape.x, shape.y, shape.z, shape.w}) = 4
    /\ Len(emitted) = 4
    /\ emitted[4] = Line(shape.w, shape.x)

\* C9: map_vertex with closure f answers a shape of the same variant (and the same
\* wrapping) and corner count whose k-th corner is what f answered on its k-th
\* call, made with the k-th corner of the input: one call per corner, in order.
MapVertexPreserves ==
    (op = "map_vertex") =>
        LET c == Corners(shape)
            r == Corners(result)
        IN /\ result.kind = shape.kind
           /\ Len(r) = Len(c)
           /\ fcalls = c
           /\ \A k \in 1 .. Len(c) : r[k] = PlainCall(f, c[k], k - 1)

MapVertexSeen ==
    /\ op = "map_vertex" /\ f = "stamp"
    /\ shape.kind = "PolyQuad"
    /\ Cardinality({shape.p.x, shape.p.y, shape.p.z, shape.p.w}) = 4
    /\ Len(Corners(result)) = 4

\* ------------------------------------------------------------------ buffered adapters
\* The upstream iterator is a script: the answers its next() will give, in order,
\* each a Polygon or NoneMark (a None), and None for good once the script is
\* used up. A None inside the script is an upstream that is not fused.
NoneMark == [kind |-> "None"]

\* the emission protocol an adapter runs on a shape it pulled
Emit(a, p, dbg) ==
    CASE a = "vertices" -> emit_vertices(p)
      [] a = "lines" -> emit_lines(p, dbg)
      [] a = "triangulate" -> emit_triangles(p, dbg)

\* an adapter that stops at the first shape whose emission is empty
PullOnce(a, src, got, dbg) ==
    IF src = <<>>
    THEN [source |-> src, got |-> got, buffer |-> <<>>, end |-> "None"]
    ELSE LET p == Head(src)
         IN IF p.kind = "None"
            THEN [source |-> Tail(src), got |-> Append(got, p), buffer |-> <<>>,
                  end |-> "None"]
            ELSE LET e == Emit(a, p, dbg)
                 IN IF e.panic
                    THEN [source |-> Tail(src), got |-> Append(got, p),
                          buffer |-> <<>>, end |-> "panic"]
                    ELSE IF e.items = <<>>
                    THEN [source |-> Tail(src), got |-> Append(got, p),
                          buffer |-> <<>>, end |-> "None"]
                    ELSE [source |-> Tail(src), got |-> Append(got, p),
                          buffer |-> e.items, end |-> "Some"]

\* One call of next() that finds the buffer empty: the passes of `loop` from
\* self.source.next() on. src is what upstream will still answer, got what it has
\* answered in this call. Answers the state the call ends in and how it ends:
\* "Some" (buffer holds the emission; the next pass pops its front), "None"
\* (upstream answered None) or "panic" (the emission panicked).
RECURSIVE PullLoop(_, _, _, _)
PullLoop(a, src, got, dbg) ==
    IF src = <<>>
    THEN [source |-> src, got |-> got, buffer |-> <<>>, end |-> "None"]
    ELSE LET p == Head(src)
         IN IF p.kind = "None"
            THEN [source |-> Tail(src), got |-> Append(got, p), buffer |-> <<>>,
                  end |-> "None"]
            ELSE LET e == Emit(a, p, dbg)
                 IN IF e.panic
                    THEN [source |-> Tail(src), got |-> Append(got, p),
                          buffer |-> <<>>, end |-> "panic"]
                    ELSE IF e.items = <<>>
                    THEN PullLoop(a, Tail(src), Append(got, p), dbg)
                    ELSE [source |-> Tail(src), got |-> Append(got, p),
                          buffer |-> e.items, end |-> "Some"]

\* an adapter that pops the back of its buffer
BufferedNextLifo(a, src, buf, dbg) ==
    IF buf # <<>>
    THEN [source |-> src, got |-> <<>>, buffer |-> SubSeq(buf, 1, Len(buf) - 1),
          end |-> "Some", item |-> <<buf[Len(buf)]>>]
    ELSE LET r == PullLoop(a, src, <<>>, dbg)
         IN IF r.end = "Some"
            THEN [source |-> r.source, got |-> r.got,
                  buffer |-> SubSeq(r.buffer, 1, Len(r.buffer) - 1),
                  end |-> "Some", item |-> <<r.buffer[Len(r.buffer)]>>]
            ELSE [source |-> r.source, got |-> r.got, buffer |-> r.buffer,
                  end |-> r.end, item |-> <<>>]

\* an adapter that remembers it has returned None and never asks upstream again
BufferedNextFused(a, src, buf, dbg) ==
    IF nones >= 1
    THEN [source |-> src, got |-> <<>>, buffer |-> buf, end |-> "None", item |-> <<>>]
    ELSE IF buf # <<>>
    THEN [source |-> src, got |-> <<>>, buffer |-> Tail(buf), end |-> "Some",
          item |-> <<Head(buf)>>]
    ELSE LET r == PullLoop(a, src, <<>>, dbg)
         IN IF r.end = "Some"
            THEN [source |-> r.source, got |-> r.got, buffer |-> Tail(r.buffer),
                  end |-> "Some", item |-> <<Head(r.buffer)>>]
            ELSE [source |-> r.source, got |-> r.got, buffer |-> r.buffer,
                  end |-> r.end, item |-> <<>>]

\* an adapter that refills its buffer as it pops the last buffered item
BufferedNextEager(a, src, buf, dbg) ==
    IF Len(buf) = 1
    THEN LET r == PullLoop(a, src, <<>>, dbg)
         IN [source |-> r.source, got |-> r.got, buffer |-> r.buffer, end |-> "Some",
             item |-> <<Head(buf)>>]
    ELSE IF buf # <<>>
    THEN [source |-> src, got |-> <<>>, buffer |-> Tail(buf), end |-> "Some",
          item |-> <<Head(buf)>>]
    ELSE LET r == PullLoop(a, src, <<>>, dbg)
         IN IF r.end = "Some"
            THEN [source |-> r.source, got |-> r.got, buffer |-> Tail(r.buffer),
                  end |-> "Some", item |-> <<Head(r.buffer)>>]
            ELSE [source |-> r.source, got |-> r.got, buffer |-> r.buffer,
                  end |-> r.end, item |-> <<>>]

\* Iterator::next of a buffered adapter: pop_front the buffer, else pull and emit
\* until the buffer holds something. item is <<v>> for Some(v) and <<>> otherwise.
BufferedNext(a, src, buf, dbg) ==
    IF buf # <<>>
    THEN [source |-> src, got |-> <<>>, buffer |-> Tail(buf), end |-> "Some",
          item |-> <<Head(buf)>>]
    ELSE LET r == PullLoop(a, src, <<>>, dbg)
         IN IF r.end = "Some"
            THEN [source |-> r.source, got |-> r.got, buffer |-> Tail(r.buffer),
                  end |-> "Some", item |-> <<Head(r.buffer)>>]
            ELSE [source |-> r.source, got |-> r.got, buffer |-> r.buffer,
                  end |-> r.end, item |-> <<>>]

\* ------------------------------------------------------------------ SpecAdapt
Adapters == {"vertices", "lines", "triangulate"}

\* What the upstream answers at position k of its script is one of these, with
\* corners 10 * k + 1, 10 * k + 2, ..: no payload occurs twice in a script.
Templates ==
    {<<"PolyTri", 3>>, <<"PolyQuad", 4>>, <<"None", 0>>}
        \cup {<<"PolyNGon", n>> : n \in 0 .. MaxUpNGon}

ScriptItem(t, k) ==
    CASE t[1] = "PolyTri" -> PolyTri(Triangle(10 * k + 1, 10 * k + 2, 10 * k + 3))
      [] t[1] = "PolyQuad" ->
           PolyQuad(Quad(10 * k + 1, 10 * k + 2, 10 * k + 3, 10 * k + 4))
      [] t[1] = "None" -> NoneMark
      [] t[1] = "PolyNGon" -> PolyNGon(NGon([j \in 1 .. t[2] |-> 10 * k + j]))

Scripts ==
    {[k \in 1 .. Len(ts) |-> ScriptItem(ts[k], k)] : ts \in SeqsUpTo(Templates, MaxUp)}

InitAdapt ==
    /\ adapter \in Adapters
    /\ debug_assertions \in BOOLEAN
    /\ source \in Scripts
    /\ panicked = FALSE
    /\ pulled = <<>>
    /\ buffer = <<>>
    /\ out = <<>>
    /\ aret = "fresh"
    /\ nones = 0
    /\ IdleGen
    /\ IdleEmit

\* what one call of next() does to the adapter and to what its caller has seen
Step(r) ==
    /\ source' = r.source
    /\ pulled' = pulled \o r.got
    /\ buffer' = r.buffer
    /\ out' = out \o r.item
    /\ aret' = r.end
    /\ panicked' = (r.end = "panic")
    /\ nones' = IF r.end = "None" THEN nones + 1 ELSE nones
    /\ UNCHANGED <<debug_assertions, adapter, genVars, emitVars>>

\* Iterator::next for VertexStreamIterator
VertexStreamIteratorNext ==
    /\ adapter = "vertices" /\ ~panicked /\ nones < MaxNones
    /\ Step(BufferedNext("vertices", source, buffer, debug_assertions))

\* Iterator::next for LinesIterator
LinesIteratorNext ==
    /\ adapter = "lines" /\ ~panicked /\ nones < MaxNones
    /\ Step(BufferedNext("lines", source, buffer, debug_assertions))

\* Iterator::next for TriangulateIterator
TriangulateIteratorNext ==
    /\ adapter = "triangulate" /\ ~panicked /\ nones < MaxNones
    /\ Step(BufferedNext("triangulate", source, buffer, debug_assertions))

NextAdapt ==
    \/ VertexStreamIteratorNext
    \/ LinesIteratorNext
    \/ TriangulateIteratorNext

SpecAdapt == InitAdapt /\ [][NextAdapt]_vars

\* one shape under a protocol, or an adapter over an upstream
SpecEmitAdapt == (InitEmit \/ InitAdapt) /\ [][NextEmit \/ NextAdapt]_vars

\* the shapes among upstream answers
ShapesOf(answers) == SelectSeq(answers, LAMBDA p : p.kind # "None")

\* the shapes upstream answers before its first None
RECURSIVE FirstRun(_)
FirstRun(answers) ==
    IF answers = <<>> THEN <<>>
    ELSE IF Head(answers).kind = "None" THEN <<>>
    ELSE <<Head(answers)>> \o FirstRun(Tail(answers))

\* emit(s1) \o emit(s2) \o .. \o emit(sm), for shapes none of which panics
RECURSIVE ConcatEmit(_, _)
ConcatEmit(a, shapes) ==
    IF shapes = <<>> THEN <<>>
    ELSE Emit(a, Head(shapes), FALSE).items \o ConcatEmit(a, Tail(shapes))

\* an NGon too small for the adapter's protocol: its debug_assert! fails
Asserted(a, p) == Emit(a, p, TRUE).panic

Front(q) == SubSeq(q, 1, Len(q) - 1)

Last(q) == q[Len(q)]


\* C5 (as claimed): triangulating an NGon of 0, 1 or 2 corners returns normally
\* with nothing emitted, and a TriangulateIterator skips such an NGon: it never
\* panics, and by its first None it has returned the triangles of every upstream
\* shape.
SmallNGonNoFailure ==
    /\ (op = "emit_triangles" /\ Variant(shape) = "NGon" /\ Len(Corners(shape)) < 3) =>
           ~panicked /\ emitted = <<>>
    /\ (adapter = "triangulate") =>
           /\ ~panicked
           /\ (nones = 1 /\ aret = "None") =>
                  out = ConcatEmit("triangulate", FirstRun(pulled \o source))

\* C5 (amended): an NGon of 0, 1 or 2 corners emits no triangle, and emit_triangles
\* panics on debug_assert!(len >= 3) exactly when debug assertions are compiled
\* in. A TriangulateIterator panics exactly when they are compiled in and the
\* shape it has just pulled is such an NGon; when they are not, it skips such
\* NGons: by its first None it has returned the triangles of every upstream shape
\* of 3 corners or more, in upstream order.
SmallNGonTriangulation ==
    /\ (op = "emit_triangles" /\ Variant(shape) = "NGon" /\ Len(Corners(shape)) < 3) =>
           panicked = debug_assertions /\ emitted = <<>>
    /\ (adapter = "triangulate") =>
           /\ panicked <=> /\ debug_assertions
                           /\ pulled # <<>>
                           /\ Last(pulled).kind = "PolyNGon"
                           /\ Len(Corners(Last(pulled))) < 3
           /\ (~debug_assertions /\ nones = 1 /\ aret = "None") =>
                  out = ConcatEmit("triangulate",
                            SelectSeq(FirstRun(pulled \o source),
                                      LAMBDA p : Len(Corners(p)) >= 3))

\* a TriangulateIterator has pulled an NGon of fewer than 3 corners and has gone on
\* to return the triangles of a later shape
SmallNGonSkipped ==
    /\ adapter = "triangulate" /\ ~debug_assertions
    /\ Len(pulled) >= 2
    /\ pulled[1].kind = "PolyNGon" /\ Len(Corners(pulled[1])) = 2
    /\ pulled[2].kind = "PolyQuad"
    /\ Len(out) = 2
    /\ aret = "None"

\* C10 (as claimed): a buffered adapter never fails on a shape, and by its first
\* None it has returned emit(s1) \o .. \o emit(sm) for the shapes s1..sm its
\* upstream answered before its first None; until then what it has returned and
\* what it still buffers are the emissions of the shapes pulled so far, in order.
BufferedFifoAlways ==
    (adapter \in Adapters) =>
        /\ ~panicked
        /\ (nones = 0) => out \o buffer = ConcatEmit(adapter, ShapesOf(pulled))
        /\ (nones = 1 /\ aret = "None") =>
               /\ buffer = <<>>
               /\ out = ConcatEmit(adapter, FirstRun(pulled \o source))

\* C10 (amended): as claimed whenever no emission panics. With debug assertions
\* compiled in, next() panics on pulling an NGon of fewer corners than the
\* protocol asserts (3 for triangles, 2 for lines), having returned exactly the
\* emissions of the shapes before it; no other call panics.
BufferedFifo ==
    (adapter \in Adapters) =>
        /\ panicked <=> /\ debug_assertions
                        /\ pulled # <<>>
                        /\ Last(pulled).kind # "None"
                        /\ Asserted(adapter, Last(pulled))
        /\ panicked => out = ConcatEmit(adapter, ShapesOf(Front(pulled)))
        /\ (~panicked /\ nones = 0) =>
               out \o buffer = ConcatEmit(adapter, ShapesOf(pulled))
        /\ (~panicked /\ nones = 1 /\ aret = "None") =>
               /\ buffer = <<>>
               /\ out = ConcatEmit(adapter, FirstRun(pulled \o source))

\* an adapter has returned, in order, all the items of a shape, of nothing for an
\* empty NGon, and of a second shape, and then None
BufferedFifoSeen ==
    /\ adapter = "lines" /\ ~panicked
    /\ Len(pulled) = 3
    /\ pulled[1].kind = "PolyTri"
    /\ pulled[2].kind = "PolyNGon" /\ Len(Corners(pulled[2])) = 0
    /\ pulled[3].kind = "PolyQuad"
    /\ Len(out) = 7
    /\ aret = "None" /\ nones = 1


\* an upstream that answers None for good after its first None
RECURSIVE Fused(_)
Fused(answers) ==
    IF answers = <<>> THEN TRUE
    ELSE IF Head(answers).kind = "None" THEN ShapesOf(Tail(answers)) = <<>>
    ELSE Fused(Tail(answers))

\* how many of the upstream's answers were None
NonesIn(answers) == Len(SelectSeq(answers, LAMBDA p : p.kind = "None"))

\* C11 (as claimed): once a buffered adapter has returned None, every later call
\* of next() returns None too, whatever its upstream does after its own None.
ExhaustionTerminal ==
    (adapter \in Adapters /\ nones >= 1) => aret = "None"

\* C11 (amended): a buffered adapter keeps no record of exhaustion: every None it
\* returns is a None its upstream answered in that very call. So once it has
\* returned None, later calls return None as long as the upstream goes on
\* answering None (a fused upstream), and return items again when it does not.
ExhaustionFollowsUpstream ==
    (adapter \in Adapters) =>
        /\ (Fused(pulled \o source) /\ nones >= 1) => aret = "None"
        /\ (nones > NonesIn(pulled)) => source = <<>>

\* an adapter over a fused upstream has returned items and then None twice
ExhaustedTwice ==
    /\ adapter = "triangulate"
    /\ Fused(pulled \o source)
    /\ Len(out) >= 2
    /\ nones = 2 /\ aret = "None"


\* C12: emit_vertices emits a shape's corners once each in the order of its
\* fields (Line x,y; Triangle x,y,z; Quad x,y,z,w; NGon in add_vertex order;
\* Polygon as its variant), and the iterator of Polygon::as_vertices returns
\* exactly these corners, in this order, before its first None, and None after.
VertexEmissionOrder ==
    /\ op = "emit_vertices" => (emitted = Corners(shape) /\ ~panicked)
    /\ op = "as_vertices" =>
          /\ ~panicked
          /\ out \o buffer = Corners(shape)
          /\ nones >= 1 => (aret = "None" /\ out = Corners(shape))
          /\ aret = "Some" => (nones = 0 /\ out # <<>>)

\* a Polygon of four distinct corners has been walked to its end by as_vertices
AsVerticesExhausted ==
    /\ op = "as_vertices" /\ shape.kind = "PolyQuad"
    /\ out = <<shape.p.x, shape.p.y, shape.p.z, shape.p.w>>
    /\ Cardinality({out[k] : k \in 1 .. 4}) = 4
    /\ nones = 2 /\ aret = "None"


\* C13: Cone::new(u) panics exactly when u < 2; a Cone whose construction
\* panicked is never advanced, streamed from or looked up; a constructed Cone
\* starts with its face cursor at 0.
ConeNewGuard ==
    gen = "Cone" =>
        /\ panicked <=> sub_u < 2
        /\ panicked => (calls = 0 /\ produced = <<>> /\ probe = <<>> /\ ret = "fresh")
        /\ (~panicked /\ calls = 0) => i = 0

\* Cone::new(1) has panicked
ConeRefused ==
    gen = "Cone" /\ sub_u = 1 /\ panicked /\ calls = 0 /\ probe = <<>>


\* the upstream answers of one next() call: those pulled in the step
Got == SubSeq(pulled', Len(pulled) + 1, Len(pulled'))

\* a pulled shape the loop of next() passes over: its emission is empty
Skipped(p) ==
    /\ p.kind # "None"
    /\ ~Emit(adapter, p, debug_assertions).panic
    /\ Emit(adapter, p, debug_assertions).items = <<>>

\* what one step of an adapter does to its buffer and its upstream
BufferDiscipline ==
    adapter \in Adapters =>
        IF buffer # <<>>
        THEN /\ pulled' = pulled /\ source' = source
             /\ out' = Append(out, Head(buffer))
             /\ buffer' = Tail(buffer)
             /\ aret' = "Some"
        ELSE /\ pulled' \o source' = pulled \o source
             /\ \A k \in 1 .. Len(Got) - 1 : Skipped(Got[k])
             /\ aret' = "Some" =>
                   /\ Got # <<>> /\ Last(Got).kind # "None"
                   /\ LET e == Emit(adapter, Last(Got), debug_assertions)
                      IN /\ ~e.panic /\ e.items # <<>>
                         /\ out' = Append(out, Head(e.items))
                         /\ buffer' = Tail(e.items)
             /\ aret' = "None" =>
                   /\ out' = out /\ buffer' = <<>>
                   /\ \/ Got # <<>> /\ Last(Got).kind = "None"
                      \/ source' = <<>> /\ (Got = <<>> \/ Skipped(Last(Got)))
             /\ aret' = "panic" =>
                   /\ out' = out
                   /\ Got # <<>> /\ Last(Got).kind # "None"
                   /\ Emit(adapter, Last(Got), debug_assertions).panic

\* C14: a next() that finds the buffer non-empty returns its front and leaves the
\* upstream alone; a next() that finds it empty pulls the upstream, passing over
\* shapes of empty emission only, up to and including the first shape whose
\* emission is non-empty (returning its first item and buffering the rest), or
\* until the upstream answers None, or until an emission panics.
PullsOnlyWhenEmpty == [][BufferDiscipline]_vars

\* the adapter passed over an NGon of empty emission and pulled a Quad in one
\* call, then returned the Quad's second triangle from its buffer without a pull
ServedFromBuffer ==
    /\ adapter = "triangulate" /\ ~debug_assertions
    /\ Len(pulled) = 2
    /\ pulled[1].kind = "PolyNGon" /\ Len(pulled[1].p.verts) < 3
    /\ pulled[2].kind = "PolyQuad"
    /\ Len(out) = 2 /\ buffer = <<>> /\ source # <<>>


\* ------------------------------------------------------------------ size_hint
\* self.source.size_hint() of an upstream whose bounds are exact: the number of
\* shapes it answers before its next None, as lower and as upper bound
UpstreamSizeHint(src) ==
    [lower |-> Len(FirstRun(src)), upper |-> <<Len(FirstRun(src))>>]

\* an adapter handing the upstream's bounds through unchanged
SizeHintThrough(src) == UpstreamSizeHint(src)

\* TriangulateIterator::size_hint: let (n, _) = self.source.size_hint(); (n, None)
TriangulateSizeHint(src) ==
    LET n == UpstreamSizeHint(src).lower
    IN [lower |-> n, upper |-> <<>>]

\* LinesIterator::size_hint: let (n, _) = self.source.size_hint(); (n, None)
LinesSizeHint(src) ==
    LET n == UpstreamSizeHint(src).lower
    IN [lower |-> n, upper |-> <<>>]

size_hint(a, src) ==
    CASE a = "triangulate" -> TriangulateSizeHint(src)
      [] a = "lines" -> LinesSizeHint(src)

\* the items an adapter with an empty buffer returns before it returns None or
\* panics, over the upstream answers src
RECURSIVE StillToYield(_, _, _)
StillToYield(a, src, dbg) ==
    IF src = <<>> THEN 0
    ELSE IF Head(src).kind = "None" THEN 0
    ELSE LET e == Emit(a, Head(src), dbg)
         IN IF e.panic THEN 0
            ELSE Len(e.items) + StillToYield(a, Tail(src), dbg)

\* the items the adapter in its current state will still return
Remaining == Len(buffer) + StillToYield(adapter, source, debug_assertions)

\* the shapes before the first NGon too small for the adapter's protocol
RECURSIVE ProperRun(_, _)
ProperRun(a, shapes) ==
    IF shapes = <<>> THEN <<>>
    ELSE IF Asserted(a, Head(shapes)) THEN <<>>
    ELSE <<Head(shapes)>> \o ProperRun(a, Tail(shapes))

\* C15 (as claimed): size_hint of TriangulateIterator and LinesIterator is
\* (n, None) for the upstream's lower bound n, and n never exceeds the number
\* of items the adapter will still return, NGons of any length included.
SizeHintLowerBound ==
    (adapter \in {"triangulate", "lines"} /\ ~panicked) =>
        /\ size_hint(adapter, source).upper = <<>>
        /\ size_hint(adapter, source).lower = UpstreamSizeHint(source).lower
        /\ size_hint(adapter, source).lower <= Remaining

\* C15 (amended): size_hint is (n, None) for the upstream's lower bound n. n is
\* a lower bound of the items still to come when every NGon upstream will
\* answer has at least 3 corners (triangulate) or 2 corners (lines); in general
\* only the shapes before the first smaller NGon are sure to count.
SizeHintProperLowerBound ==
    (adapter \in {"triangulate", "lines"} /\ ~panicked) =>
        /\ size_hint(adapter, source).upper = <<>>
        /\ size_hint(adapter, source).lower = UpstreamSizeHint(source).lower
        /\ ProperRun(adapter, FirstRun(source)) = FirstRun(source) =>
              size_hint(adapter, source).lower <= Remaining
        /\ Len(ProperRun(adapter, FirstRun(source))) <= Remaining

\* a LinesIterator in mid-stream, with buffered lines and a positive size_hint
\* over an upstream that holds an NGon of 2 corners or more
SizeHintSeen ==
    /\ adapter = "lines" /\ ~panicked
    /\ buffer # <<>> /\ pulled # <<>>
    /\ size_hint(adapter, source).lower >= 2
    /\ \E k \in 1 .. Len(source) : source[k].kind = "PolyNGon"
    /\ ProperRun(adapter, FirstRun(source)) = FirstRun(source)


\* Tetrahedron::size_hint: (FACES.len(), Some(FACES.len())), whatever self.i is
TetrahedronSizeHint == [lower |-> Len(TETRA_FACES), upper |-> <<Len(TETRA_FACES)>>]

\* Octahedron::size_hint: (FACES.len(), Some(FACES.len())), whatever self.i is
OctahedronSizeHint == [lower |-> Len(OCTA_FACES), upper |-> <<Len(OCTA_FACES)>>]

\* Dodecahedron::size_hint: (FACES.len(), Some(FACES.len())), whatever self.i is
DodecahedronSizeHint == [lower |-> Len(DODECA_FACES), upper |-> <<Len(DODECA_FACES)>>]

PlatonicSizeHint(g) ==
    CASE g = "Tetrahedron" -> TetrahedronSizeHint
      [] g = "Octahedron" -> OctahedronSizeHint
      [] g = "Dodecahedron" -> DodecahedronSizeHint

\* C16 (as claimed): after any number of next() calls, size_hint of Dodecahedron,
\* Octahedron and Tetrahedron brackets the shapes still to come: its lower
\* bound is 0 once next() has returned None, the faces the cursor has not
\* passed are at least its lower bound, and what has come since construction is
\* within the upper bound that held at construction.
PlatonicSizeHintBrackets ==
    (gen \in {"Dodecahedron", "Octahedron", "Tetrahedron"}) =>
        /\ ret = "None" => PlatonicSizeHint(gen).lower = 0
        /\ PlatonicSizeHint(gen).lower <= indexed_polygon_count(gen, sub_u) - i
        /\ PlatonicSizeHint(gen).upper # <<>> =>
              Len(produced) <= PlatonicSizeHint(gen).upper[1]

\* size_hint of the three solids in the state after construction brackets
\* the face count
PlatonicSizeHintFresh ==
    (gen \in {"Dodecahedron", "Octahedron", "Tetrahedron"} /\ calls = 0) =>
        /\ PlatonicSizeHint(gen).lower = indexed_polygon_count(gen, sub_u)
        /\ PlatonicSizeHint(gen).upper = <<indexed_polygon_count(gen, sub_u)>>


\* the sections of a Cone of sub_u = su
Sections(su) ==
    {Tip(k) : k \in 0 .. su - 1} \cup {TopRadius(k) : k \in 0 .. su - 1}
        \cup {BottomRadius(k) : k \in 0 .. su - 1} \cup {BottomCenter}

\* C17: for every constructed generator and every idx < indexed_polygon_count(),
\* every index in indexed_polygon(idx) is below shared_vertex_count(), for the
\* faces looked up so far and for all others; and for a Cone
\* rev_index(index(sec)) = sec for every section Tip(k), TopRadius(k),
\* BottomRadius(k) with k < sub_u and for BottomCenter.
IndicesInsidePool ==
    (gen \in Generators /\ ~panicked) =>
        /\ probe # <<>> =>
              \A k \in 1 .. Len(Corners(probe[2])) :
                 /\ Corners(probe[2])[k] >= 0
                 /\ Corners(probe[2])[k] < shared_vertex_count(gen, sub_u)
        /\ \A idx \in 0 .. indexed_polygon_count(gen, sub_u) - 1 :
              \A k \in 1 .. Len(Corners(indexed_polygon(gen, sub_u, idx))) :
                 Corners(indexed_polygon(gen, sub_u, idx))[k]
                     \in 0 .. shared_vertex_count(gen, sub_u) - 1
        /\ gen = "Cone" =>
              \A sec \in Sections(sub_u) :
                 ConeRevIndex(sub_u, ConeIndex(sub_u, sec)) = sec

\* a bottom face of a Cone has been looked up: it holds the last index of the pool
BottomFaceProbed ==
    /\ gen = "Cone" /\ sub_u = MaxSubU /\ ~panicked
    /\ probe # <<>> /\ probe[1] = sub_u * 2 - 1
    /\ Corners(probe[2])[1] = shared_vertex_count(gen, sub_u) - 1

====
